---- MODULE Spec2Model ----
(***************************************************************************)
(* A model of configure_spaces_mcp.py: the catalogue of Spaces, the        *)
(* selection of entries by display name, the rendering of each entry into  *)
(* a configuration fragment, the merge of the fragments, and the two ways  *)
(* a run ends (a printed summary, or a JSON file written to --output).     *)
(*                                                                         *)
(* A Python str is a sequence of one-character strings, so that split,     *)
(* join, sorted, the f-strings and the JSON text are computed character by *)
(* character.  A JSON-able Python value is tagged: [str |-> s] is a str,   *)
(* [list |-> xs] a list, [dict |-> items] a dict whose items are the       *)
(* <<key, value>> pairs in insertion order.                                *)
(***************************************************************************)
EXTENDS Integers, Sequences, FiniteSets, TLC

(* ---------------------------------------------------------------- bounds *)

\* The longest catalogue a build declares.
MaxCatalogue == 2

\* The most names given to --include.
MaxSelection == 2

\* The longest entrypoint rendered by the specification of to_config alone.
MaxEntrypoint == 4

(* --------------------------------------------------------------- strings *)

\* The printable ASCII characters in code point order, from 32 (space) on
\* (the grave accent, 96, is written by its code point).
ASCII ==
  << " ", "!", "\"", "#", "$", "%", "&", "'", "(", ")", "*", "+", ",", "-", ".", "/",
     "0", "1", "2", "3", "4", "5", "6", "7", "8", "9", ":", ";", "<", "=", ">", "?",
     "@", "A", "B", "C", "D", "E", "F", "G", "H", "I", "J", "K", "L", "M", "N", "O",
     "P", "Q", "R", "S", "T", "U", "V", "W", "X", "Y", "Z", "[", "\\", "]", "^", "_",
     "U+0060", "a", "b", "c", "d", "e", "f", "g", "h", "i", "j", "k", "l", "m", "n", "o",
     "p", "q", "r", "s", "t", "u", "v", "w", "x", "y", "z", "{", "|", "}", "~" >>

\* ord(c): the code point of a character.
Ord(c) ==
  IF c = "\t" THEN 9
  ELSE IF c = "\n" THEN 10
  ELSE 31 + (CHOOSE i \in 1..Len(ASCII) : ASCII[i] = c)

\* a < b on str: Python compares strings code point by code point, a proper
\* prefix being the smaller.
RECURSIVE str_lt(_, _)
str_lt(a, b) ==
  IF b = <<>> THEN FALSE
  ELSE IF a = <<>> THEN TRUE
  ELSE IF Head(a) = Head(b) THEN str_lt(Tail(a), Tail(b))
  ELSE Ord(Head(a)) < Ord(Head(b))

\* sep.join(strs)
RECURSIVE str_join(_, _)
str_join(sep, strs) ==
  IF strs = <<>> THEN <<>>
  ELSE IF Len(strs) = 1 THEN strs[1]
  ELSE strs[1] \o sep \o str_join(sep, Tail(strs))

\* str(n) for a non-negative int.
RECURSIVE int_str(_)
int_str(n) ==
  IF n < 10 THEN <<ASCII[17 + n]>>
  ELSE int_str(n \div 10) \o <<ASCII[17 + (n % 10)]>>

\* The characters str.split() with no separator treats as whitespace.
Whitespace == {" ", "\t", "\n"}

\* s.split(): the maximal runs of non-whitespace characters of s, in order;
\* leading, trailing and repeated whitespace yields no empty token.
RECURSIVE split_from(_, _, _, _)
split_from(s, i, token, tokens) ==
  IF i > Len(s)
    THEN IF token = <<>> THEN tokens ELSE Append(tokens, token)
  ELSE IF s[i] \in Whitespace
    THEN split_from(s, i + 1, <<>>,
                    IF token = <<>> THEN tokens ELSE Append(tokens, token))
  ELSE split_from(s, i + 1, Append(token, s[i]), tokens)

str_split(s) == split_from(s, 1, <<>>, <<>>)

(* --------------------------------------------------------- Python values *)

PyStr(s) == [str |-> s]
PyList(xs) == [list |-> xs]
PyDict(items) == [dict |-> items]

\* The keys of a dict's items, in insertion order.
dict_keys(items) == [i \in 1..Len(items) |-> items[i][1]]

dict_has(items, k) == \E i \in 1..Len(items) : items[i][1] = k

dict_get(items, k) == items[CHOOSE i \in 1..Len(items) : items[i][1] = k][2]

\* d[k] = v: a key already present keeps its position and takes the new
\* value; a new key is appended.
dict_set(items, k, v) ==
  IF dict_has(items, k)
    THEN [i \in 1..Len(items) |-> IF items[i][1] = k THEN <<k, v>> ELSE items[i]]
    ELSE Append(items, <<k, v>>)

\* d.update(other)
RECURSIVE dict_update(_, _)
dict_update(items, other) ==
  IF other = <<>> THEN items
  ELSE dict_update(dict_set(items, other[1][1], other[1][2]), Tail(other))

\* The outcome of a call: a returned value, or an exception that propagates.
Return(v) == [raised |-> FALSE, value |-> v]
Raise(type, message) == [raised |-> TRUE, exc |-> type, message |-> message]

ValueError == <<"V", "a", "l", "u", "e", "E", "r", "r", "o", "r">>
SystemExitExc == <<"S", "y", "s", "t", "e", "m", "E", "x", "i", "t">>
OSErrorExc == <<"O", "S", "E", "r", "r", "o", "r">>

(* ------------------------------------------------------------ to_config *)

HTTP == <<"h", "t", "t", "p">>
WS == <<"w", "s">>
COMMAND == <<"c", "o", "m", "m", "a", "n", "d">>
\* A transport kind to_config does not know.
GRPC == <<"g", "r", "p", "c">>

KEY_TYPE == <<"t", "y", "p", "e">>
KEY_URL == <<"u", "r", "l">>
KEY_COMMAND == <<"c", "o", "m", "m", "a", "n", "d">>
KEY_ARGS == <<"a", "r", "g", "s">>

\* to_config with the "ws" branch a copy of the "http" branch, type included.
to_config_ws_typed_http(self) ==
  IF self.transport = HTTP
    THEN Return(PyDict(<< <<self.display_name,
           PyDict(<< <<KEY_TYPE, PyStr(HTTP)>>, <<KEY_URL, PyStr(self.entrypoint)>> >>)>> >>))
  ELSE IF self.transport = WS
    THEN Return(PyDict(<< <<self.display_name,
           PyDict(<< <<KEY_TYPE, PyStr(HTTP)>>, <<KEY_URL, PyStr(self.entrypoint)>> >>)>> >>))
  ELSE IF self.transport = COMMAND
    THEN LET tokens == str_split(self.entrypoint) IN
         IF tokens = <<>>
           THEN Raise(ValueError,
                      <<"n", "o", "t", " ", "e", "n", "o", "u", "g", "h", " ", "v", "a", "l", "u", "e", "s", " ", "t", "o", " ", "u", "n", "p", "a", "c", "k", " ", "(", "e", "x", "p", "e", "c", "t", "e", "d", " ", "a", "t", " ", "l", "e", "a", "s", "t", " ", "1", ",", " ", "g", "o", "t", " ", "0", ")">>)
           ELSE Return(PyDict(<< <<self.display_name,
                  PyDict(<< <<KEY_COMMAND, PyStr(Head(tokens))>>,
                            <<KEY_ARGS, PyList([i \in 1..Len(tokens) - 1 |->
                                                   PyStr(tokens[i + 1])])>> >>)>> >>))
  ELSE Raise(ValueError,
             <<"U", "n", "s", "u", "p", "p", "o", "r", "t", "e", "d", " ", "t", "r", "a", "n", "s", "p", "o", "r", "t", " ", "'">> \o self.transport \o <<"'", " ", "f", "o", "r", " ">> \o self.space_id)

\* SpaceServer.to_config.  `command, *args = self.entrypoint.split()` needs
\* at least one token: with none the unpacking raises ValueError.
to_config(self) ==
  IF self.transport = HTTP
    THEN Return(PyDict(<< <<self.display_name,
           PyDict(<< <<KEY_TYPE, PyStr(HTTP)>>, <<KEY_URL, PyStr(self.entrypoint)>> >>)>> >>))
  ELSE IF self.transport = WS
    THEN Return(PyDict(<< <<self.display_name,
           PyDict(<< <<KEY_TYPE, PyStr(WS)>>, <<KEY_URL, PyStr(self.entrypoint)>> >>)>> >>))
  ELSE IF self.transport = COMMAND
    THEN LET tokens == str_split(self.entrypoint) IN
         IF tokens = <<>>
           THEN Raise(ValueError,
                      <<"n", "o", "t", " ", "e", "n", "o", "u", "g", "h", " ", "v", "a", "l", "u", "e", "s", " ", "t", "o", " ", "u", "n", "p", "a", "c", "k", " ", "(", "e", "x", "p", "e", "c", "t", "e", "d", " ", "a", "t", " ", "l", "e", "a", "s", "t", " ", "1", ",", " ", "g", "o", "t", " ", "0", ")">>)
           ELSE Return(PyDict(<< <<self.display_name,
                  PyDict(<< <<KEY_COMMAND, PyStr(Head(tokens))>>,
                            <<KEY_ARGS, PyList([i \in 1..Len(tokens) - 1 |->
                                                   PyStr(tokens[i + 1])])>> >>)>> >>))
  ELSE Raise(ValueError,
             <<"U", "n", "s", "u", "p", "p", "o", "r", "t", "e", "d", " ", "t", "r", "a", "n", "s", "p", "o", "r", "t", " ", "'">> \o self.transport \o <<"'", " ", "f", "o", "r", " ">> \o self.space_id)

(* ------------------------------------------------------------- catalogue *)

VARIABLES
  POPULAR_SPACES,  \* the module-level catalogue list
  fs,              \* the files: path -> [exists, text]
  pc,              \* where main is
  args,            \* the parsed command line
  chosen_spaces,   \* main's reference to the list resolve_selection returned
  config,          \* main's merged mapping
  stdout,          \* what was printed, one entry per print call
  stderr,          \* what the interpreter reports when the run dies
  exit_status,     \* <<>> while running, then <<status>>
  space,           \* the entry handed to to_config on its own
  rendered         \* what that call produced

vars == <<POPULAR_SPACES, fs, pc, args, chosen_spaces, config, stdout, stderr,
          exit_status, space, rendered>>

SpaceServer(space_id, display_name, transport, entrypoint, description) ==
  [space_id |-> space_id, display_name |-> display_name, transport |-> transport,
   entrypoint |-> entrypoint, description |-> description]

EVERYTHING == <<"e", "v", "e", "r", "y", "t", "h", "i", "n", "g">>
PHI_3_VISION == <<"p", "h", "i", "-", "3", "-", "v", "i", "s", "i", "o", "n">>
NOT_A_REAL_SPACE == <<"n", "o", "t", "-", "a", "-", "r", "e", "a", "l", "-", "s", "p", "a", "c", "e">>

\* The display names catalogue entries carry.
DisplayNames == {EVERYTHING, PHI_3_VISION}

\* The identifier and the description of the entry at each catalogue position.
SpaceIds ==
  << <<"m", "o", "d", "e", "l", "c", "o", "n", "t", "e", "x", "t", "p", "r", "o", "t", "o", "c", "o", "l", "/", "E", "v", "e", "r", "y", "t", "h", "i", "n", "g">>, <<"m", "i", "c", "r", "o", "s", "o", "f", "t", "/", "p", "h", "i", "-", "3", "-", "v", "i", "s", "i", "o", "n">>,
     <<"s", "t", "a", "b", "i", "l", "i", "t", "y", "a", "i", "/", "s", "t", "a", "b", "l", "e", "-", "d", "i", "f", "f", "u", "s", "i", "o", "n">>, <<"m", "e", "t", "a", "-", "l", "l", "a", "m", "a", "/", "l", "l", "a", "m", "a", "-", "3", "-", "8", "b", "-", "i", "n", "s", "t", "r", "u", "c", "t">> >>

Descriptions ==
  << <<"P", "r", "o", "t", "o", "c", "o", "l", " ", "e", "x", "e", "r", "c", "i", "s", "e", "r", ".">>, <<"V", "i", "s", "i", "o", "n", "-", "l", "a", "n", "g", "u", "a", "g", "e", " ", "t", "o", "o", "l", "c", "h", "a", "i", "n", ".">>,
     <<"I", "m", "a", "g", "e", " ", "g", "e", "n", "e", "r", "a", "t", "i", "o", "n", " ", "p", "i", "p", "e", "l", "i", "n", "e", ".">>, <<"C", "o", "m", "m", "u", "n", "i", "t", "y", " ", "L", "L", "a", "M", "A", " ", "3", " ", "c", "h", "a", "t", " ", "i", "n", "t", "e", "r", "f", "a", "c", "e", ".">> >>

URL_ENTRYPOINT == <<"h", "t", "t", "p", "s", ":", "/", "/", "e", "x", "a", "m", "p", "l", "e", ".", "h", "f", ".", "s", "p", "a", "c", "e", "/", "m", "c", "p">>
COMMAND_ENTRYPOINT == <<"n", "p", "x", " ", "-", "y", " ", " ", "\"", "a", "\\", "b", "\"">>
EMPTY_ENTRYPOINT == <<>>

\* The transport and entrypoint of a catalogue entry of a run: a URL reached
\* over HTTP or over a socket, a command line of three tokens, a command
\* line without any token, and a URL under a transport to_config does not
\* know.
EntryShapes ==
  { <<HTTP, URL_ENTRYPOINT>>, <<WS, URL_ENTRYPOINT>>, <<COMMAND, COMMAND_ENTRYPOINT>>,
    <<COMMAND, EMPTY_ENTRYPOINT>>, <<GRPC, URL_ENTRYPOINT>> }

\* The catalogues a build may declare: one to MaxCatalogue entries, display
\* names not necessarily distinct.
Catalogues ==
  UNION { { [i \in 1..n |-> SpaceServer(SpaceIds[i], names[i], shapes[i][1],
                                        shapes[i][2], Descriptions[i])] :
              names \in [1..n -> DisplayNames], shapes \in [1..n -> EntryShapes] } :
          n \in 1..MaxCatalogue }

(* ------------------------------------------------- build_combined_config *)

RECURSIVE build_loop(_, _)
build_loop(spaces, combined) ==
  IF spaces = <<>> THEN Return(PyDict(combined))
  ELSE LET fragment == to_config(Head(spaces)) IN
       IF fragment.raised THEN fragment
       ELSE build_loop(Tail(spaces), dict_update(combined, fragment.value.dict))

\* build_combined_config with setdefault in place of update: the first entry
\* of a display name keeps its fragment.
RECURSIVE build_first_wins(_, _)
build_first_wins(spaces, combined) ==
  IF spaces = <<>> THEN Return(PyDict(combined))
  ELSE LET fragment == to_config(Head(spaces)) IN
       IF fragment.raised THEN fragment
       ELSE build_first_wins(Tail(spaces),
              IF dict_has(combined, Head(spaces).display_name) THEN combined
              ELSE dict_update(combined, fragment.value.dict))

build_combined_config_first_wins(spaces) == build_first_wins(spaces, <<>>)

\* build_combined_config: the first entry that to_config raises on ends the
\* loop, and the exception propagates.
build_combined_config(spaces) == build_loop(spaces, <<>>)

(* ----------------------------------------------------- resolve_selection *)

\* A reference to a list object: the catalogue list itself, or a new list.
TheCatalogue == [is_catalogue |-> TRUE, items |-> <<>>]
NewList(items) == [is_catalogue |-> FALSE, items |-> items]

\* The items of the list a reference points to.
list_items(ref) == IF ref.is_catalogue THEN POPULAR_SPACES ELSE ref.items

\* {space.display_name: space for space in spaces}
RECURSIVE available_from(_, _)
available_from(spaces, items) ==
  IF spaces = <<>> THEN items
  ELSE available_from(Tail(spaces), dict_set(items, Head(spaces).display_name, Head(spaces)))

RECURSIVE insort(_, _)
insort(strs, s) ==
  IF strs = <<>> THEN <<s>>
  ELSE IF str_lt(s, Head(strs)) THEN <<s>> \o strs
  ELSE <<Head(strs)>> \o insort(Tail(strs), s)

\* sorted(strs)
RECURSIVE sorted(_)
sorted(strs) ==
  IF strs = <<>> THEN <<>>
  ELSE insort(sorted(SubSeq(strs, 1, Len(strs) - 1)), strs[Len(strs)])

\* [x for x in xs if x not in available]
RECURSIVE not_in(_, _)
not_in(names, available) ==
  IF names = <<>> THEN <<>>
  ELSE (IF dict_has(available, Head(names)) THEN <<>> ELSE <<Head(names)>>)
       \o not_in(Tail(names), available)

COMMA_SPACE == <<",", " ">>

\* resolve_selection filtering the catalogue by the requested names: the
\* entries come out in catalogue order.
resolve_selection_in_catalogue_order(selection) ==
  IF ~selection.given \/ selection.names = <<>>
    THEN Return(TheCatalogue)
  ELSE LET available == available_from(POPULAR_SPACES, <<>>)
           unknown == not_in(selection.names, available)
       IN IF unknown # <<>>
            THEN Raise(SystemExitExc,
                       <<"U", "n", "k", "n", "o", "w", "n", " ", "s", "p", "a", "c", "e", "(", "s", ")", ":", " ">> \o str_join(COMMA_SPACE, unknown)
                       \o <<".", " ", "V", "a", "l", "i", "d", " ", "o", "p", "t", "i", "o", "n", "s", ":", " ">>
                       \o str_join(COMMA_SPACE, sorted(dict_keys(available))))
            ELSE Return(NewList(SelectSeq(POPULAR_SPACES,
                          LAMBDA entry : \E i \in 1..Len(selection.names) :
                                           selection.names[i] = entry.display_name)))

\* resolve_selection joining the valid names without sorting them.
resolve_selection_unsorted_valid(selection) ==
  IF ~selection.given \/ selection.names = <<>>
    THEN Return(TheCatalogue)
  ELSE LET available == available_from(POPULAR_SPACES, <<>>)
           unknown == not_in(selection.names, available)
       IN IF unknown # <<>>
            THEN Raise(SystemExitExc,
                       <<"U", "n", "k", "n", "o", "w", "n", " ", "s", "p", "a", "c", "e", "(", "s", ")", ":", " ">> \o str_join(COMMA_SPACE, unknown)
                       \o <<".", " ", "V", "a", "l", "i", "d", " ", "o", "p", "t", "i", "o", "n", "s", ":", " ">>
                       \o str_join(COMMA_SPACE, dict_keys(available)))
            ELSE Return(NewList([i \in 1..Len(selection.names) |->
                                   dict_get(available, selection.names[i])]))

\* resolve_selection testing `selection is None` in place of `not selection`:
\* an empty list selects nothing.
resolve_selection_none_only(selection) ==
  IF ~selection.given
    THEN Return(TheCatalogue)
  ELSE LET available == available_from(POPULAR_SPACES, <<>>)
           unknown == not_in(selection.names, available)
       IN IF unknown # <<>>
            THEN Raise(SystemExitExc,
                       <<"U", "n", "k", "n", "o", "w", "n", " ", "s", "p", "a", "c", "e", "(", "s", ")", ":", " ">> \o str_join(COMMA_SPACE, unknown)
                       \o <<".", " ", "V", "a", "l", "i", "d", " ", "o", "p", "t", "i", "o", "n", "s", ":", " ">>
                       \o str_join(COMMA_SPACE, sorted(dict_keys(available))))
            ELSE Return(NewList([i \in 1..Len(selection.names) |->
                                   dict_get(available, selection.names[i])]))

\* resolve_selection.  selection.given is FALSE for None (no --include);
\* `not selection` holds for None and for the empty list.
resolve_selection(selection) ==
  IF ~selection.given \/ selection.names = <<>>
    THEN Return(TheCatalogue)
  ELSE LET available == available_from(POPULAR_SPACES, <<>>)
           unknown == not_in(selection.names, available)
       IN IF unknown # <<>>
            THEN LET valid == str_join(COMMA_SPACE, sorted(dict_keys(available))) IN
                 Raise(SystemExitExc,
                       <<"U", "n", "k", "n", "o", "w", "n", " ", "s", "p", "a", "c", "e", "(", "s", ")", ":", " ">> \o str_join(COMMA_SPACE, unknown)
                       \o <<".", " ", "V", "a", "l", "i", "d", " ", "o", "p", "t", "i", "o", "n", "s", ":", " ">> \o valid)
            ELSE Return(NewList([i \in 1..Len(selection.names) |->
                                   dict_get(available, selection.names[i])]))

(* --------------------------------------------------- print_human_summary *)

RECURSIVE summary_of(_)
summary_of(spaces) ==
  IF spaces = <<>> THEN <<>>
  ELSE << <<"-", " ">> \o Head(spaces).display_name,
          <<" ", " ", "S", "p", "a", "c", "e", " ", "I", "D", " ", " ", " ", " ", ":", " ">> \o Head(spaces).space_id,
          <<" ", " ", "T", "r", "a", "n", "s", "p", "o", "r", "t", " ", " ", " ", ":", " ">> \o Head(spaces).transport,
          <<" ", " ", "E", "n", "t", "r", "y", "p", "o", "i", "n", "t", " ", " ", ":", " ">> \o Head(spaces).entrypoint,
          <<" ", " ", "D", "e", "s", "c", "r", "i", "p", "t", "i", "o", "n", " ", ":", " ">> \o Head(spaces).description \o <<"\n">> >>
       \o summary_of(Tail(spaces))

\* The strings print_human_summary prints, one per print call.
print_human_summary(spaces) ==
  << <<"R", "e", "g", "i", "s", "t", "e", "r", "e", "d", " ", "H", "u", "g", "g", "i", "n", "g", " ", "F", "a", "c", "e", " ", "S", "p", "a", "c", "e", "s", " ", "w", "i", "t", "h", " ", "M", "C", "P", " ", "s", "u", "p", "p", "o", "r", "t", ":", "\n">> >> \o summary_of(spaces)

(* ---------------------------------------------------------- write_config *)

\* An encoder that writes every character as it is.
json_escape_nothing(c) == <<c>>

\* json.dumps escapes the quote, the backslash and the control characters.
json_escape(c) ==
  IF c = "\"" THEN <<"\\", "\"">>
  ELSE IF c = "\\" THEN <<"\\", "\\">>
  ELSE IF c = "\n" THEN <<"\\", "n">>
  ELSE IF c = "\t" THEN <<"\\", "t">>
  ELSE <<c>>

RECURSIVE json_escaped(_)
json_escaped(s) ==
  IF s = <<>> THEN <<>> ELSE json_escape(Head(s)) \o json_escaped(Tail(s))

json_string(s) == <<"\"">> \o json_escaped(s) \o <<"\"">>

\* A newline and the indentation of a nesting level, for indent=2.
newline_indent(level) == <<"\n">> \o [i \in 1..(2 * level) |-> " "]

\* json.dumps(value, indent=2) from nesting level `level` on: an empty
\* container is written closed, a non-empty one with one item per line, a
\* dict's items in insertion order.
RECURSIVE json_encode(_, _)
json_encode(value, level) ==
  IF "str" \in DOMAIN value THEN json_string(value.str)
  ELSE IF "list" \in DOMAIN value
    THEN IF value.list = <<>> THEN <<"[", "]">>
         ELSE <<"[">> \o newline_indent(level + 1)
              \o str_join(<<",">> \o newline_indent(level + 1),
                          [i \in 1..Len(value.list) |->
                             json_encode(value.list[i], level + 1)])
              \o newline_indent(level) \o <<"]">>
  ELSE IF value.dict = <<>> THEN <<"{", "}">>
       ELSE <<"{">> \o newline_indent(level + 1)
            \o str_join(<<",">> \o newline_indent(level + 1),
                        [i \in 1..Len(value.dict) |->
                           json_string(value.dict[i][1]) \o <<":", " ">>
                           \o json_encode(value.dict[i][2], level + 1)])
            \o newline_indent(level) \o <<"}">>

json_dumps(value) == json_encode(value, 0)

KEY_SERVERS == <<"s", "e", "r", "v", "e", "r", "s">>

AbsentFile == [exists |-> FALSE, text |-> <<>>]
File(text) == [exists |-> TRUE, text |-> text]

\* write_config: Path.write_text creates the file or replaces its content.
write_config(mapping, output_path) ==
  [fs EXCEPT ![output_path] = File(json_dumps(PyDict(<< <<KEY_SERVERS, mapping>> >>)))]

(* ------------------------------------------------------------------ main *)

DEFAULT_CONFIG_PATH == <<"m", "c", "p", "_", "s", "p", "a", "c", "e", "s", ".", "j", "s", "o", "n">>
OTHER_PATH == <<"o", "u", "t", "/", "s", "p", "a", "c", "e", "s", ".", "j", "s", "o", "n">>

\* The paths --output names.
Paths == {DEFAULT_CONFIG_PATH, OTHER_PATH}

OLD_TEXT == <<"{", "\"", "s", "e", "r", "v", "e", "r", "s", "\"", ":", " ", "{", "}", "}">>

\* What the files hold before the run: nothing yet, or an earlier content.
InitialFileSystems == { [p \in Paths |-> AbsentFile], [p \in Paths |-> File(OLD_TEXT)] }

\* The names a caller may give to --include.
RequestNames == DisplayNames \cup {NOT_A_REAL_SPACE}

\* args.include: None without --include, else the list of names given.
Selections ==
  { [given |-> FALSE, names |-> <<>>] }
  \cup UNION { { [given |-> TRUE, names |-> names] : names \in [1..n -> RequestNames] } :
               n \in 0..MaxSelection }

NoArgs == [include |-> [given |-> FALSE, names |-> <<>>], list_only |-> FALSE,
           output |-> DEFAULT_CONFIG_PATH]

NoSpace == SpaceServer(<<>>, <<>>, <<>>, <<>>, <<>>)
NotRendered == [called |-> FALSE]

Init ==
  /\ POPULAR_SPACES \in Catalogues
  /\ fs \in InitialFileSystems
  /\ pc = "main"
  /\ args = NoArgs
  /\ chosen_spaces = NewList(<<>>)
  /\ config = PyDict(<<>>)
  /\ stdout = <<>>
  /\ stderr = <<>>
  /\ exit_status = <<>>
  /\ space = NoSpace
  /\ rendered = NotRendered

\* What the interpreter does with an exception nothing catches: SystemExit
\* with a message prints the message, any other exception a traceback; the
\* exit status is 1 either way.
Die(outcome) ==
  /\ stderr' = IF outcome.exc = SystemExitExc
                 THEN <<outcome.message>>
                 ELSE << <<"T", "r", "a", "c", "e", "b", "a", "c", "k", " ", "(", "m", "o", "s", "t", " ", "r", "e", "c", "e", "n", "t", " ", "c", "a", "l", "l", " ", "l", "a", "s", "t", ")", ":">>,
                         outcome.exc \o <<":", " ">> \o outcome.message >>
  /\ exit_status' = <<1>>
  /\ pc' = "exited"

\* The three characters the success message starts with, by code point.
WROTE_MARK == <<"U+00E2", "U+0153", "U+2026">>

\* args = parse_args(argv)
ParseArgs ==
  /\ pc = "main"
  /\ \E include \in Selections, list_only \in BOOLEAN, output \in Paths :
       args' = [include |-> include, list_only |-> list_only, output |-> output]
  /\ pc' = "parsed"
  /\ UNCHANGED <<POPULAR_SPACES, fs, chosen_spaces, config, stdout, stderr,
                 exit_status, space, rendered>>

\* chosen_spaces = resolve_selection(args.include)
ResolveSelection ==
  /\ pc = "parsed"
  /\ LET outcome == resolve_selection(args.include) IN
       IF outcome.raised
         THEN Die(outcome) /\ UNCHANGED chosen_spaces
         ELSE /\ chosen_spaces' = outcome.value
              /\ pc' = "resolved"
              /\ UNCHANGED <<stderr, exit_status>>
  /\ UNCHANGED <<POPULAR_SPACES, fs, args, config, stdout, space, rendered>>

\* The --list-only branch without its `return 0`: the summary is printed and
\* the run goes on to build and write the configuration.
ListOnly_without_return ==
  /\ pc = "resolved"
  /\ args.list_only
  /\ stdout' = stdout \o print_human_summary(list_items(chosen_spaces))
  /\ LET outcome == build_combined_config(list_items(chosen_spaces)) IN
       IF outcome.raised
         THEN Die(outcome) /\ UNCHANGED <<fs, config>>
         ELSE /\ config' = outcome.value
              /\ fs' = write_config(outcome.value, args.output)
              /\ exit_status' = <<0>>
              /\ pc' = "exited"
              /\ UNCHANGED stderr
  /\ UNCHANGED <<POPULAR_SPACES, args, chosen_spaces, space, rendered>>

\* if args.list_only: print_human_summary(chosen_spaces); return 0
ListOnly ==
  /\ pc = "resolved"
  /\ args.list_only
  /\ stdout' = stdout \o print_human_summary(list_items(chosen_spaces))
  /\ exit_status' = <<0>>
  /\ pc' = "exited"
  /\ UNCHANGED <<POPULAR_SPACES, fs, args, chosen_spaces, config, stderr, space, rendered>>

\* build_combined_config taking the entries off the list it was given
\* (`while spaces: combined.update(spaces.pop(0).to_config())`): the list is
\* left empty, and it is the catalogue when no name was selected.
BuildCombinedConfig_consuming ==
  /\ pc = "resolved"
  /\ ~args.list_only
  /\ LET outcome == build_combined_config(list_items(chosen_spaces)) IN
       IF outcome.raised
         THEN Die(outcome) /\ UNCHANGED <<config, POPULAR_SPACES, chosen_spaces>>
         ELSE /\ config' = outcome.value
              /\ pc' = "built"
              /\ IF chosen_spaces.is_catalogue
                   THEN POPULAR_SPACES' = <<>> /\ UNCHANGED chosen_spaces
                   ELSE chosen_spaces' = NewList(<<>>) /\ UNCHANGED POPULAR_SPACES
              /\ UNCHANGED <<stderr, exit_status>>
  /\ UNCHANGED <<fs, args, stdout, space, rendered>>

\* config = build_combined_config(chosen_spaces)
BuildCombinedConfig ==
  /\ pc = "resolved"
  /\ ~args.list_only
  /\ LET outcome == build_combined_config(list_items(chosen_spaces)) IN
       IF outcome.raised
         THEN Die(outcome) /\ UNCHANGED config
         ELSE /\ config' = outcome.value
              /\ pc' = "built"
              /\ UNCHANGED <<stderr, exit_status>>
  /\ UNCHANGED <<POPULAR_SPACES, fs, args, chosen_spaces, stdout, space, rendered>>

\* write_config(config, args.output), the two prints, return 0
WriteConfig ==
  /\ pc = "built"
  /\ fs' = write_config(config, args.output)
  /\ stdout' = stdout \o
       << WROTE_MARK \o <<" ", "W", "r", "o", "t", "e", " ", "M", "C", "P", " ", "c", "o", "n", "f", "i", "g", "u", "r", "a", "t", "i", "o", "n", " ", "w", "i", "t", "h", " ">> \o int_str(Len(config.dict))
          \o <<" ", "s", "e", "r", "v", "e", "r", "(", "s", ")", " ", "t", "o", " ">> \o args.output,
          <<" ", " ", " ", "Y", "o", "u", " ", "c", "a", "n", " ", "r", "e", "f", "e", "r", "e", "n", "c", "e", " ", "t", "h", "i", "s", " ", "f", "i", "l", "e", " ", "f", "r", "o", "m", " ", "C", "l", "a", "u", "d", "e", " ", "D", "e", "s", "k", "t", "o", "p", " ", "o", "r", " ", "V", "S", " ", "C", "o", "d", "e", "'", "s", " ", "M", "C", "P", " ", "s", "e", "t", "t", "i", "n", "g", "s", ".">> >>
  /\ exit_status' = <<0>>
  /\ pc' = "exited"
  /\ UNCHANGED <<POPULAR_SPACES, args, chosen_spaces, config, stderr, space, rendered>>

\* write_config when the file system refuses: Path.write_text raises OSError
\* and nothing catches it.  The file is untouched when it could not be
\* opened, and left empty when it was opened (and so truncated) but not
\* written.
WriteConfigFails ==
  /\ pc = "built"
  /\ \E truncated \in BOOLEAN :
       fs' = IF truncated THEN [fs EXCEPT ![args.output] = File(<<>>)] ELSE fs
  /\ Die(Raise(OSErrorExc, <<"c", "a", "n", "n", "o", "t", " ", "w", "r", "i", "t", "e", " ">> \o args.output))
  /\ UNCHANGED <<POPULAR_SPACES, args, chosen_spaces, config, stdout, space, rendered>>

Next ==
  \/ ParseArgs
  \/ ResolveSelection
  \/ ListOnly
  \/ BuildCombinedConfig
  \/ WriteConfig
  \/ WriteConfigFails

Spec == Init /\ [][Next]_vars

(* --------------------------------------------------- to_config on its own *)

\* The characters of the entrypoints handed to to_config on its own.
EntrypointChars == {"n", "-", " ", "\t"}

Entrypoints == UNION { [1..n -> EntrypointChars] : n \in 0..MaxEntrypoint }

Transports == {HTTP, WS, COMMAND, GRPC}

InitToConfig ==
  /\ space \in { SpaceServer(SpaceIds[1], EVERYTHING, transport, entrypoint, Descriptions[1]) :
                   transport \in Transports, entrypoint \in Entrypoints }
  /\ rendered = NotRendered
  /\ POPULAR_SPACES = <<>>
  /\ fs = [p \in Paths |-> AbsentFile]
  /\ pc = "to_config"
  /\ args = NoArgs
  /\ chosen_spaces = NewList(<<>>)
  /\ config = PyDict(<<>>)
  /\ stdout = <<>>
  /\ stderr = <<>>
  /\ exit_status = <<>>

\* space.to_config()
ToConfig ==
  /\ pc = "to_config"
  /\ ~rendered.called
  /\ rendered' = [called |-> TRUE, outcome |-> to_config(space)]
  /\ UNCHANGED <<POPULAR_SPACES, fs, pc, args, chosen_spaces, config, stdout, stderr,
                 exit_status, space>>

NextToConfig == ToConfig

SpecToConfig == InitToConfig /\ [][NextToConfig]_vars

(* ------------------------------------------------------------ json.loads *)

\* json.loads, the standard library's reader of JSON text, by which the
\* written file is read back: a value is a string, an object or an array
\* (the program writes no number, true, false or null).

JsonWhitespace == {" ", "\t", "\n"}

RECURSIVE skip_whitespace(_, _)
skip_whitespace(text, i) ==
  IF i <= Len(text) /\ text[i] \in JsonWhitespace THEN skip_whitespace(text, i + 1) ELSE i

NoParse == [ok |-> FALSE]
Parsed(value, next) == [ok |-> TRUE, value |-> value, next |-> next]

\* The string whose opening quote is just before position i.
RECURSIVE scan_string(_, _, _)
scan_string(text, i, chars) ==
  IF i > Len(text) THEN NoParse
  ELSE IF text[i] = "\"" THEN Parsed(chars, i + 1)
  ELSE IF text[i] = "\\"
    THEN IF i + 1 > Len(text) THEN NoParse
         ELSE IF text[i + 1] \in {"\"", "\\", "/"}
           THEN scan_string(text, i + 2, Append(chars, text[i + 1]))
         ELSE IF text[i + 1] = "n" THEN scan_string(text, i + 2, Append(chars, "\n"))
         ELSE IF text[i + 1] = "t" THEN scan_string(text, i + 2, Append(chars, "\t"))
         ELSE NoParse
  ELSE IF text[i] \in {"\n", "\t"} THEN NoParse
  ELSE scan_string(text, i + 1, Append(chars, text[i]))

RECURSIVE parse_value(_, _)
RECURSIVE parse_members(_, _, _)
RECURSIVE parse_elements(_, _, _)

parse_value(text, from) ==
  LET i == skip_whitespace(text, from) IN
  IF i > Len(text) THEN NoParse
  ELSE IF text[i] = "\""
    THEN LET s == scan_string(text, i + 1, <<>>) IN
         IF s.ok THEN Parsed(PyStr(s.value), s.next) ELSE NoParse
  ELSE IF text[i] = "{"
    THEN LET j == skip_whitespace(text, i + 1) IN
         IF j <= Len(text) /\ text[j] = "}" THEN Parsed(PyDict(<<>>), j + 1)
         ELSE parse_members(text, j, <<>>)
  ELSE IF text[i] = "["
    THEN LET j == skip_whitespace(text, i + 1) IN
         IF j <= Len(text) /\ text[j] = "]" THEN Parsed(PyList(<<>>), j + 1)
         ELSE parse_elements(text, j, <<>>)
  ELSE NoParse

\* The members of an object from a key's opening quote on; a repeated key
\* keeps its place and takes the later value, as in a dict.
parse_members(text, i, items) ==
  IF i > Len(text) \/ text[i] # "\"" THEN NoParse
  ELSE LET key == scan_string(text, i + 1, <<>>) IN
  IF ~key.ok THEN NoParse
  ELSE LET colon == skip_whitespace(text, key.next) IN
  IF colon > Len(text) \/ text[colon] # ":" THEN NoParse
  ELSE LET member == parse_value(text, colon + 1) IN
  IF ~member.ok THEN NoParse
  ELSE LET after == skip_whitespace(text, member.next)
           more == dict_set(items, key.value, member.value)
       IN IF after > Len(text) THEN NoParse
          ELSE IF text[after] = "}" THEN Parsed(PyDict(more), after + 1)
          ELSE IF text[after] = ","
            THEN parse_members(text, skip_whitespace(text, after + 1), more)
          ELSE NoParse

parse_elements(text, i, elems) ==
  LET elem == parse_value(text, i) IN
  IF ~elem.ok THEN NoParse
  ELSE LET after == skip_whitespace(text, elem.next)
           more == Append(elems, elem.value)
       IN IF after > Len(text) THEN NoParse
          ELSE IF text[after] = "]" THEN Parsed(PyList(more), after + 1)
          ELSE IF text[after] = "," THEN parse_elements(text, after + 1, more)
          ELSE NoParse

JSONDecodeError == <<"J", "S", "O", "N", "D", "e", "c", "o", "d", "e", "E", "r", "r", "o", "r">>

json_loads(text) ==
  LET top == parse_value(text, 1) IN
  IF top.ok /\ skip_whitespace(text, top.next) > Len(text)
    THEN Return(top.value)
    ELSE Raise(JSONDecodeError, <<>>)

(* ---------------------------------------------------------------- claims *)

\* haystack contains needle as a substring.
Contains(haystack, needle) ==
  \E i \in 1..(Len(haystack) - Len(needle) + 1) :
    SubSeq(haystack, i, i + Len(needle) - 1) = needle

StartsWith(s, prefix) == Len(s) >= Len(prefix) /\ SubSeq(s, 1, Len(prefix)) = prefix

Range(seq) == {seq[i] : i \in 1..Len(seq)}

\* The members of a set of indices, in increasing order.
Ascending(indices) ==
  [k \in 1..Cardinality(indices) |->
     CHOOSE i \in indices : Cardinality({j \in indices : j < i}) = k - 1]

\* A sequence without the later repetitions of its elements.
FirstOccurrences(seq) ==
  LET kept == Ascending({i \in 1..Len(seq) : \A j \in 1..(i - 1) : seq[j] # seq[i]})
  IN [k \in 1..Len(kept) |-> seq[kept[k]]]

CatalogueNames == {POPULAR_SPACES[i].display_name : i \in 1..Len(POPULAR_SPACES)}

UniqueNames ==
  \A i, j \in 1..Len(POPULAR_SPACES) :
    POPULAR_SPACES[i].display_name = POPULAR_SPACES[j].display_name => i = j

Requested == args.include.names

\* --include was given at least one name.
NonEmptySelection == args.include.given /\ Requested # <<>>

\* A non-empty selection of catalogue display names only.
ValidSelection == NonEmptySelection /\ Range(Requested) \subseteq CatalogueNames

\* A non-empty selection with a name that is no catalogue display name.
UnknownRequested == NonEmptySelection /\ ~(Range(Requested) \subseteq CatalogueNames)

\* The strings of a set, each once, in increasing order.
InOrder(strs) ==
  CHOOSE s \in [1..Cardinality(strs) -> strs] :
    \A i, j \in 1..Cardinality(strs) : i < j => str_lt(s[i], s[j])

Supported(entry) == entry.transport \in {HTTP, WS, COMMAND}

\* C1: when every name given to --include is a catalogue display name, the
\* merged mapping has exactly the requested names as keys, each once, in the
\* order of their first request, whatever the order of the catalogue.
C1_KeysInRequestOrder ==
  (pc = "built" /\ ValidSelection) =>
    dict_keys(config.dict) = FirstOccurrences(Requested)

\* A mapping built from names requested in the reverse of catalogue order.
C1_Witness ==
  /\ pc = "built"
  /\ Requested = <<PHI_3_VISION, EVERYTHING>>
  /\ Len(POPULAR_SPACES) >= 2
  /\ POPULAR_SPACES[1].display_name = EVERYTHING
  /\ POPULAR_SPACES[2].display_name = PHI_3_VISION

\* C2: a selection with an unknown name ends the run at resolve_selection with
\* status 1 and a single message that contains every unmatched requested
\* name and the catalogue's display names, sorted and comma-separated; with
\* or without --list-only, and whatever other names were requested, nothing
\* is printed and no file changes in that run.
C2_UnknownSelectionFails ==
  [][ /\ (pc = "parsed" /\ UnknownRequested) =>
           /\ pc' = "exited"
           /\ exit_status' = <<1>>
           /\ Len(stderr') = 1
           /\ \A i \in 1..Len(Requested) :
                Requested[i] \notin CatalogueNames => Contains(stderr'[1], Requested[i])
           /\ Contains(stderr'[1], str_join(COMMA_SPACE, InOrder(CatalogueNames)))
      /\ (pc # "main" /\ UnknownRequested) => (stdout' = <<>> /\ fs' = fs)
    ]_vars

\* A failed run that asked for a catalogue name, then an unknown one, of a
\* catalogue not declared in sorted order.
C2_Witness ==
  /\ pc = "exited"
  /\ Requested = <<EVERYTHING, NOT_A_REAL_SPACE>>
  /\ Len(POPULAR_SPACES) >= 2
  /\ POPULAR_SPACES[1].display_name = PHI_3_VISION
  /\ POPULAR_SPACES[2].display_name = EVERYTHING
  /\ exit_status = <<1>>

\* The list main works on holds an entry of an unsupported transport.
SelectedUnsupported ==
  \E i \in 1..Len(list_items(chosen_spaces)) : ~Supported(list_items(chosen_spaces)[i])

\* C3: a run without --list-only whose selection holds an entry of an
\* unsupported transport ends with status 1 and an error that names an
\* offending entry's identifier and transport, and writes no file.
C3_UnsupportedTransportNamed ==
  (pc = "exited" /\ ~args.list_only /\ SelectedUnsupported) =>
    /\ exit_status = <<1>>
    /\ stderr # <<>>
    /\ \E i \in 1..Len(list_items(chosen_spaces)) :
         LET entry == list_items(chosen_spaces)[i] IN
           /\ ~Supported(entry)
           /\ Contains(stderr[Len(stderr)], entry.space_id)
           /\ Contains(stderr[Len(stderr)], entry.transport)
    /\ fs \in InitialFileSystems

\* The five strings print_human_summary prints for the k-th listed entry.
SummaryBlock(out, k) == SubSeq(out, 5 * k - 3, 5 * k + 1)

Lists(block, entry) ==
  /\ Contains(block[1], entry.display_name)
  /\ Contains(block[2], entry.space_id)
  /\ Contains(block[3], entry.transport)
  /\ Contains(block[4], entry.entrypoint)
  /\ Contains(block[5], entry.description)

\* C4: --list-only with --include of catalogue names prints the heading and
\* then one block per requested name, in request order, each listing a
\* catalogue entry of that name; the run returns 0 and no step of it changes
\* a file.
C4_ListOnlyPrintsAndWritesNothing ==
  [][ /\ (pc = "resolved" /\ args.list_only /\ ValidSelection) =>
           /\ pc' = "exited"
           /\ exit_status' = <<0>>
           /\ stderr' = <<>>
           /\ Len(stdout') = 1 + 5 * Len(Requested)
           /\ \A k \in 1..Len(Requested) :
                /\ SummaryBlock(stdout', k)[1] = <<"-", " ">> \o Requested[k]
                /\ \E entry \in Range(POPULAR_SPACES) :
                     /\ entry.display_name = Requested[k]
                     /\ Lists(SummaryBlock(stdout', k), entry)
      /\ args'.list_only => fs' = fs
    ]_vars

\* A summary of two entries asked for in the reverse of catalogue order.
C4_Witness ==
  /\ pc = "exited"
  /\ args.list_only
  /\ Requested = <<PHI_3_VISION, EVERYTHING>>
  /\ Len(POPULAR_SPACES) >= 2
  /\ POPULAR_SPACES[1].display_name = EVERYTHING
  /\ exit_status = <<0>>
  /\ fs[args.output].exists

EmptySelection == ~args.include.given \/ Requested = <<>>

\* C5: without --include, or with --include and no name, the list main works
\* on holds the catalogue's entries in catalogue order, and the mapping built
\* from it has as many keys as the catalogue has entries when the
\* catalogue's display names are distinct.
C5_EmptySelectionIsWholeCatalogue ==
  (pc \in {"resolved", "built", "exited"} /\ EmptySelection) =>
    /\ list_items(chosen_spaces) = POPULAR_SPACES
    /\ (pc = "built" /\ UniqueNames) => Len(config.dict) = Len(POPULAR_SPACES)

\* A mapping built for --include without a name, from two entries of
\* distinct names.
C5_Witness ==
  /\ pc = "built"
  /\ args.include.given
  /\ Requested = <<>>
  /\ Len(POPULAR_SPACES) >= 2
  /\ UniqueNames
  /\ Len(config.dict) = Len(POPULAR_SPACES)

\* C6: to_config of an entry of transport "http" (of transport "ws") returns
\* a mapping of one key, the display name, whose fragment is type "http"
\* (type "ws") and url the entrypoint as it is, and nothing else.
C6_UrlFragments ==
  (rendered.called /\ space.transport \in {HTTP, WS}) =>
    /\ ~rendered.outcome.raised
    /\ rendered.outcome.value =
         PyDict(<< << space.display_name,
                      PyDict(<< << <<"t", "y", "p", "e">>,
                                   PyStr(IF space.transport = <<"w", "s">>
                                           THEN <<"w", "s">>
                                           ELSE <<"h", "t", "t", "p">>) >>,
                                << <<"u", "r", "l">>, PyStr(space.entrypoint) >> >>) >> >>)

\* A "ws" entry rendered, its entrypoint holding whitespace.
C6_Witness ==
  /\ rendered.called
  /\ space.transport = WS
  /\ Len(space.entrypoint) >= 2
  /\ \E i \in 1..Len(space.entrypoint) : space.entrypoint[i] = " "
  /\ ~rendered.outcome.raised

\* The tokens of s: its maximal runs of non-whitespace characters, in order.
Tokens(s) ==
  LET starts == Ascending({i \in 1..Len(s) :
                   s[i] \notin Whitespace /\ (i = 1 \/ s[i - 1] \in Whitespace)})
      end(i) == CHOOSE j \in i..Len(s) :
                  /\ \A k \in i..j : s[k] \notin Whitespace
                  /\ (j = Len(s) \/ s[j + 1] \in Whitespace)
  IN [k \in 1..Len(starts) |-> SubSeq(s, starts[k], end(starts[k]))]

\* C7: to_config of an entry of transport "command" never raises, whatever
\* the entrypoint, and returns the fragment whose command is the first token
\* of the entrypoint and whose args are the tokens after it, in order.
C7_CommandAlwaysRenders ==
  (rendered.called /\ space.transport = COMMAND) =>
    /\ ~rendered.outcome.raised
    /\ Tokens(space.entrypoint) # <<>>
    /\ rendered.outcome.value =
         PyDict(<< << space.display_name,
                      PyDict(<< << KEY_COMMAND, PyStr(Tokens(space.entrypoint)[1]) >>,
                                << KEY_ARGS,
                                   PyList([k \in 1..(Len(Tokens(space.entrypoint)) - 1) |->
                                             PyStr(Tokens(space.entrypoint)[k + 1])]) >> >>) >> >>)

\* The fragment of the last of the entries that carries a display name.
LastFragment(spaces, name) ==
  LET last == CHOOSE i \in 1..Len(spaces) :
                /\ spaces[i].display_name = name
                /\ \A j \in (i + 1)..Len(spaces) : spaces[j].display_name # name
  IN to_config(spaces[last]).value.dict[1][2]

\* The run died of a ValueError, which only build_combined_config raises.
BuildRaised ==
  pc = "exited" /\ Len(stderr) = 2 /\ StartsWith(stderr[2], ValueError)

\* C8: the mapping build_combined_config returns holds each display name of
\* the entries it was given once, with the fragment of the last entry of
\* that name; and it raises only what to_config raises on one of the
\* entries, never anything for a repeated name.
C8_LastWriteWins ==
  LET spaces == list_items(chosen_spaces) IN
    /\ pc = "built" =>
         /\ Range(dict_keys(config.dict)) = {spaces[i].display_name : i \in 1..Len(spaces)}
         /\ \A k \in 1..Len(config.dict) :
              /\ \A m \in 1..Len(config.dict) : config.dict[m][1] = config.dict[k][1] => m = k
              /\ config.dict[k][2] = LastFragment(spaces, config.dict[k][1])
    /\ BuildRaised => \E i \in 1..Len(spaces) : to_config(spaces[i]).raised

\* A mapping built from the whole catalogue, two entries of one display name
\* and different fragments.
C8_Witness ==
  /\ pc = "built"
  /\ chosen_spaces.is_catalogue
  /\ Len(POPULAR_SPACES) >= 2
  /\ POPULAR_SPACES[1].display_name = POPULAR_SPACES[2].display_name
  /\ POPULAR_SPACES[1].transport # POPULAR_SPACES[2].transport
  /\ Len(config.dict) < Len(POPULAR_SPACES)

\* C9: after a run that wrote the configuration and returned 0, the file at
\* --output exists, whatever it was before, and json.loads of its text is
\* the dict with the one key "servers" whose value is the merged mapping:
\* the same keys in the same order with the same fragments.
C9_FileRoundTrips ==
  (pc = "exited" /\ exit_status = <<0>> /\ ~args.list_only) =>
    /\ fs[args.output].exists
    /\ LET loaded == json_loads(fs[args.output].text) IN
         /\ ~loaded.raised
         /\ loaded.value = PyDict(<< <<KEY_SERVERS, config>> >>)
         /\ fs[args.output].text = json_dumps(loaded.value)

\* A file that held an earlier configuration, rewritten with a command
\* fragment whose argument needs escaping.
C9_Witness ==
  /\ pc = "exited"
  /\ exit_status = <<0>>
  /\ ~args.list_only
  /\ \A p \in Paths \ {args.output} : fs[p] = File(OLD_TEXT)
  /\ \E k \in 1..Len(config.dict) :
       /\ dict_has(config.dict[k][2].dict, KEY_ARGS)
       /\ dict_get(config.dict[k][2].dict, KEY_ARGS).list # <<>>
  /\ fs[args.output].text # OLD_TEXT

\* C10: no step of a run changes the catalogue.
C10_CatalogueReadOnly == [][POPULAR_SPACES' = POPULAR_SPACES]_vars

\* A run that worked on the catalogue list itself and wrote its file.
C10_Witness ==
  /\ pc = "exited"
  /\ chosen_spaces.is_catalogue
  /\ exit_status = <<0>>
  /\ ~args.list_only
  /\ Len(POPULAR_SPACES) >= 2

====
